---- MODULE Spec2Model ----
(***************************************************************************)
(* A model of latex_migration.py (class LaTeXMigrator).                    *)
(*                                                                         *)
(* Text.  A Python string is the sequence of its characters, each a        *)
(* one-character string, so an offset of the program is an offset here:    *)
(* text[:k] is SubSeq(text, 1, k), text[k:] is SubSeq(text, k+1, Len(text)),*)
(* and a regular-expression match that begins at TLA+ index i and ends at  *)
(* TLA+ index j has match.start() = i-1 and match.end() = j.  The regular  *)
(* expressions of the program are modelled by what they match, character   *)
(* by character.  A dict is a function on its keys, or, where the program  *)
(* iterates over it, the sequence of its items in insertion order.         *)
(***************************************************************************)
EXTENDS Integers, Sequences, FiniteSets, TLC

VARIABLES
    old_content,           \* migrate_content: text of the old template
    new_content,           \* migrate_content: text of the new template
    mapping_mode,          \* config['mapping_mode']
    section_mapping,       \* config['section_mapping'], a dict in insertion order: <<old, new>> pairs
    new_sections_content,  \* config['new_sections_content'], in insertion order: <<title, content>> pairs
    old_sections,          \* extracted sections of the old template
    new_sections,          \* extracted sections of the new template
    replacements,          \* the list of replacement operations
    sections_to_create,    \* the list of sections to create
    migrated_content,      \* the buffer being rewritten
    spliced,               \* history: the buffer as it entered post-processing
    idx,                   \* number of replacements applied so far (the apply loop's index)
    pc,                    \* position inside migrate_content
    arg,                   \* a direct call of one of the class's pure methods: its arguments
    ret,                   \* ... and the results returned so far, by method name
    stack,                 \* extract_sections_hierarchical: the ancestor stack
    sections               \* extract_sections_hierarchical: the dict being built

vars == <<old_content, new_content, mapping_mode, section_mapping, new_sections_content,
          old_sections, new_sections, replacements, sections_to_create,
          migrated_content, spliced, idx, pc, arg, ret, stack, sections>>

hierVars == <<stack, sections>>

migrateVars == <<old_content, new_content, mapping_mode, section_mapping,
                 new_sections_content, old_sections, new_sections, replacements,
                 sections_to_create, migrated_content, spliced, idx, pc>>

-----------------------------------------------------------------------------
(* Characters, slices, lines *)

NL == "\n"
SP == " "

\* The keys of sections_pattern, in the dict's insertion order.
Kinds == <<"chapter", "section", "subsection", "subsubsection", "paragraph">>

\* The command name of a kind, as characters.
KindWord(kind) ==
    CASE kind = "chapter" -> <<"c", "h", "a", "p", "t", "e", "r">>
      [] kind = "section" -> <<"s", "e", "c", "t", "i", "o", "n">>
      [] kind = "subsection" -> <<"s", "u", "b", "s", "e", "c", "t", "i", "o", "n">>
      [] kind = "subsubsection" ->
             <<"s", "u", "b", "s", "u", "b", "s", "e", "c", "t", "i", "o", "n">>
      [] kind = "paragraph" -> <<"p", "a", "r", "a", "g", "r", "a", "p", "h">>

\* The text \end{document}.
EndDocument ==
    <<"\\", "e", "n", "d", "{", "d", "o", "c", "u", "m", "e", "n", "t", "}">>

\* The text \<kind>{<title>}.
Command(kind, title) == <<"\\">> \o KindWord(kind) \o <<"{">> \o title \o <<"}">>

\* str.strip() removes white space: here the blank and the line feed.
IsSpace(c) == c \in {NL, SP}

SetMin(S) == CHOOSE x \in S : \A y \in S : x <= y

SetMax(S) == CHOOSE x \in S : \A y \in S : x >= y

\* Python's s[lo:hi] for 0 <= lo, 0 <= hi (indices beyond the end are clamped).
Slice(s, lo, hi) ==
    LET l == IF lo > Len(s) THEN Len(s) ELSE lo
        h == IF hi > Len(s) THEN Len(s) ELSE hi
    IN  IF l >= h THEN <<>> ELSE SubSeq(s, l + 1, h)

\* Python's s[lo:]
SliceFrom(s, lo) == Slice(s, lo, Len(s))

\* str.split('\n'): the lines of a text, at least one.
RECURSIVE Split(_)
Split(s) ==
    IF \A i \in 1..Len(s) : s[i] # NL
    THEN <<s>>
    ELSE LET i == SetMin({j \in 1..Len(s) : s[j] = NL})
         IN  <<SubSeq(s, 1, i - 1)>> \o Split(SubSeq(s, i + 1, Len(s)))

\* '\n'.join(lines)
RECURSIVE Join(_)
Join(lines) ==
    IF lines = <<>> THEN <<>>
    ELSE IF Len(lines) = 1 THEN lines[1]
    ELSE lines[1] \o <<NL>> \o Join(Tail(lines))

\* str.strip()
Strip(s) ==
    LET ink == {i \in 1..Len(s) : ~IsSpace(s[i])}
    IN  IF ink = {} THEN <<>> ELSE SubSeq(s, SetMin(ink), SetMax(ink))

\* _get_section_level_rank
GetSectionLevelRank(level) ==
    CASE level = "chapter" -> 0
      [] level = "section" -> 1
      [] level = "subsection" -> 2
      [] level = "subsubsection" -> 3
      [] level = "paragraph" -> 4
      [] OTHER -> 999

-----------------------------------------------------------------------------
(* The regular expressions *)

\* The literal lit stands in text at TLA+ index i.
LiteralAt(text, i, lit) ==
    /\ i >= 1
    /\ i + Len(lit) - 1 <= Len(text)
    /\ \A j \in 1..Len(lit) : text[i + j - 1] = lit[j]

\* (\*?)\{ at index j: the index of the opening brace, 0 for no match.
OpenBraceAfter(text, j) ==
    IF LiteralAt(text, j, <<"{">>) THEN j
    ELSE IF LiteralAt(text, j, <<"*", "{">>) THEN j + 1
    ELSE 0

\* \\<kind>(\*?)\{ at index i: the index of the opening brace, 0 for no match.
OpenBraceAt(text, i, kind) ==
    IF i > Len(text) \/ text[i] # "\\" THEN 0
    ELSE IF ~LiteralAt(text, i + 1, KindWord(kind)) THEN 0
    ELSE OpenBraceAfter(text, i + 1 + Len(KindWord(kind)))

\* The least element of a set of indices, 0 for the empty set.
MinOrZero(S) == IF S = {} THEN 0 ELSE SetMin(S)

\* ([^}]+)\} after the opening brace at index b: the index of the closing brace,
\* 0 for no match.  [^}]+ takes at least one character and every character but
\* the closing brace.
ArgumentEnd(text, b) ==
    IF b = 0 \/ b + 1 > Len(text) \/ text[b + 1] = "}" THEN 0
    ELSE MinOrZero({c \in (b + 2)..Len(text) : text[c] = "}"})

\* sections_pattern[kind], \\<kind>(\*?)\{([^}]+)\}, at index i: the index of the
\* closing brace (match.end()), 0 for no match.
PatternEndAt(text, i, kind) == ArgumentEnd(text, OpenBraceAt(text, i, kind))

\* sections_pattern[kind].search(text): the index where the leftmost match
\* begins, 0 when there is none.
PatternSearch(kind, text) ==
    MinOrZero({i \in 1..Len(text) : PatternEndAt(text, i, kind) # 0})

\* group(2) of a match whose opening brace is at index b.
ArgumentAfter(text, b) == SubSeq(text, b + 1, ArgumentEnd(text, b) - 1)

\* match.group(2) of the match of sections_pattern[kind] that begins at i.
PatternTitle(text, i, kind) == ArgumentAfter(text, OpenBraceAt(text, i, kind))

\* <re.escape(title)>\} after the opening brace at index b: match.end(), 0 for
\* no match.
TitledEndAfter(text, b, title) ==
    IF b # 0 /\ LiteralAt(text, b + 1, title \o <<"}">>)
    THEN b + Len(title) + 1
    ELSE 0

\* \\<kind>\*?\{<re.escape(title)>\} at index i: match.end(), 0 for no match.
TitledEndAt(text, i, kind, title) ==
    TitledEndAfter(text, OpenBraceAt(text, i, kind), title)

\* re.search(r'\\end\{document\}', text) is not None
HasEndDocument(text) == \E i \in 1..Len(text) : LiteralAt(text, i, EndDocument)

-----------------------------------------------------------------------------
(* Marker scanner and the two-pass extractors *)

\* The entry of all_sections for a line whose first matching kind, in dict
\* order, is Kinds[k]; none when k = 0.  The title is group(2) of that kind's
\* leftmost match, stripped.
ScannedSection(line, line_idx, k) ==
    IF k = 0 THEN <<>>
    ELSE <<[title |-> Strip(PatternTitle(line, PatternSearch(Kinds[k], line), Kinds[k])),
            level |-> Kinds[k],
            rank |-> GetSectionLevelRank(Kinds[k]),
            line_idx |-> line_idx,
            line |-> Strip(line)]>>

\* The inner loop over sections_pattern.items() with its break: the first kind,
\* in dict order, that matches the line decides the line's marker.
ScanLine(line, line_idx) ==
    ScannedSection(line, line_idx,
                   MinOrZero({k \in 1..Len(Kinds) : PatternSearch(Kinds[k], line) # 0}))

\* First pass of extract_sections / extract_sections_content_only: all_sections.
\* line_idx is the 0-based index of the line, as in the program.
RECURSIVE ScanFrom(_, _)
ScanFrom(lines, i) ==
    IF i > Len(lines) THEN <<>>
    ELSE ScanLine(lines[i], i - 1) \o ScanFrom(lines, i + 1)

AllSections(lines) == ScanFrom(lines, 1)

\* extract_sections, second pass: end_idx of occurrence i, the line of the next
\* occurrence of rank <= its own, or len(lines).
FullEndIdx(all, lines, i) ==
    LET closers == {j \in (i + 1)..Len(all) : all[j].rank <= all[i].rank}
    IN  IF closers = {} THEN Len(lines) ELSE all[SetMin(closers)].line_idx

\* extract_sections_content_only, second pass: end_idx of occurrence i, the line
\* of the very next occurrence, or len(lines).
DirectEndIdx(all, lines, i) ==
    IF i < Len(all) THEN all[i + 1].line_idx ELSE Len(lines)

\* The dict entry both second passes assign: sections[title] = {...}.
SectionEntry(all, lines, i, end_idx) ==
    [content |-> Strip(Join(SubSeq(lines, all[i].line_idx + 2, end_idx))),
     level |-> all[i].level,
     line |-> all[i].line,
     rank |-> all[i].rank]

\* The keys of the dict.
Titles(all) == {all[i].title : i \in 1..Len(all)}

\* sections[title] is assigned once per occurrence, in order: the last
\* occurrence of a title is the one that stays.
KeptOccurrence(all, t) == SetMax({i \in 1..Len(all) : all[i].title = t})

FirstOccurrence(all, t) == SetMin({i \in 1..Len(all) : all[i].title = t})

\* Mutant: the first occurrence of a title is kept instead of the last.
FullSectionsKeepFirst(lines, all) ==
    [t \in Titles(all) |->
        SectionEntry(all, lines, FirstOccurrence(all, t),
                     FullEndIdx(all, lines, FirstOccurrence(all, t)))]

\* extract_sections, second pass.
FullSections(lines, all) ==
    [t \in Titles(all) |->
        SectionEntry(all, lines, KeptOccurrence(all, t),
                     FullEndIdx(all, lines, KeptOccurrence(all, t)))]

\* extract_sections_content_only, second pass.
DirectSections(lines, all) ==
    [t \in Titles(all) |->
        SectionEntry(all, lines, KeptOccurrence(all, t),
                     DirectEndIdx(all, lines, KeptOccurrence(all, t)))]

\* Both passes, on the lines of the text.
ExtractSectionsOfLines(lines) == FullSections(lines, AllSections(lines))

ExtractSectionsContentOnlyOfLines(lines) == DirectSections(lines, AllSections(lines))

ExtractSections(latex_content) == ExtractSectionsOfLines(Split(latex_content))

ExtractSectionsContentOnly(latex_content) ==
    ExtractSectionsContentOnlyOfLines(Split(latex_content))

-----------------------------------------------------------------------------
(* The stack-based builder: extract_sections_hierarchical *)

\* 'parent': None
NoParent == <<"None">>

\* Mutant: only the entries of strictly greater rank are popped.
PopClosedStrictlyGreater(stk, current_rank) ==
    LET keep == {n \in 0..Len(stk) :
                    \A j \in (n + 1)..Len(stk) :
                        GetSectionLevelRank(stk[j][2]) > current_rank}
    IN  SubSeq(stk, 1, SetMin(keep))

\* "while stack and rank(stack[-1][1]) >= current_rank: stack.pop()"
RECURSIVE PopClosed(_, _)
PopClosed(stk, current_rank) ==
    IF stk # <<>> /\ GetSectionLevelRank(stk[Len(stk)][2]) >= current_rank
    THEN PopClosed(SubSeq(stk, 1, Len(stk) - 1), current_rank)
    ELSE stk

\* The stack after a marker line: the closed entries popped, the new one pushed.
PushSection(stk, found) ==
    Append(PopClosed(stk, found.rank), <<found.title, found.level, found.line_idx>>)

\* "Initialize section entry if not exists", stk being the stack after the push.
InitSectionEntry(secs, stk, found) ==
    IF found.title \in DOMAIN secs THEN secs
    ELSE secs @@ (found.title :>
             [level |-> found.level,
              line |-> found.line,
              content_lines |-> <<>>,
              full_hierarchy |-> [n \in 1..Len(stk) |-> stk[n][1]],
              parent |-> IF Len(stk) > 1 THEN stk[Len(stk) - 1][1] ELSE NoParent])

\* "Add content to all active sections in stack": one append per stack entry.
RECURSIVE AppendToActive(_, _, _)
AppendToActive(secs, stk, line) ==
    IF stk = <<>> THEN secs
    ELSE AppendToActive(
             IF Head(stk)[1] \in DOMAIN secs
             THEN [secs EXCEPT ![Head(stk)[1]].content_lines = Append(@, line)]
             ELSE secs,
             Tail(stk), line)

\* "Convert content_lines to string": the returned dict.
HierarchicalResult(secs) ==
    [t \in DOMAIN secs |->
        [level |-> secs[t].level,
         line |-> secs[t].line,
         full_hierarchy |-> secs[t].full_hierarchy,
         parent |-> secs[t].parent,
         content |-> Join(secs[t].content_lines)]]

-----------------------------------------------------------------------------
(* Marker locator: find_section_in_template *)

NotFound == [found |-> FALSE, start |-> -1, end |-> -1, level |-> "None"]

\* Mutant: a marker of the same rank no longer stops the span.
ShouldStopStrictlyHigher(check_level, current_rank, include_children) ==
    IF include_children
    THEN GetSectionLevelRank(check_level) < current_rank
    ELSE TRUE

\* should_stop
ShouldStop(check_level, current_rank, include_children) ==
    IF include_children
    THEN GetSectionLevelRank(check_level) <= current_rank
    ELSE TRUE

\* The body of the loop over the lines after the marker: a line ends the span
\* when it holds the terminator, or a command of some kind whose rank stops the
\* span (every kind is tried on the line, there is no break).
LineStops(line, current_rank, include_children) ==
    \/ HasEndDocument(line)
    \/ \E k \in 1..Len(Kinds) :
          /\ PatternSearch(Kinds[k], line) # 0
          /\ ShouldStop(Kinds[k], current_rank, include_children)

\* Mutant: the end is counted from the start of the remaining text, start_pos
\* is not added.
SpanEndRelative(template_content, start_pos, current_rank, include_children) ==
    LET lines == Split(SliceFrom(template_content, start_pos))
        stops == {j \in 1..Len(lines) : LineStops(lines[j], current_rank, include_children)}
    IN  IF stops = {} THEN Len(template_content)
        ELSE Len(Join(SubSeq(lines, 1, SetMin(stops) - 1)))

\* end_pos for a marker whose match ends at start_pos.
SpanEnd(template_content, start_pos, current_rank, include_children) ==
    LET lines == Split(SliceFrom(template_content, start_pos))
        stops == {j \in 1..Len(lines) : LineStops(lines[j], current_rank, include_children)}
    IN  IF stops = {} THEN Len(template_content)
        ELSE start_pos + Len(Join(SubSeq(lines, 1, SetMin(stops) - 1)))

\* Mutant: the kinds are tried in the opposite order.
FindSectionLastKindFirst(template_content, section_title, include_children) ==
    LET hit(k) == {i \in 1..Len(template_content) :
                      TitledEndAt(template_content, i, Kinds[k], section_title) # 0}
        ks == {k \in 1..Len(Kinds) : hit(k) # {}}
    IN  IF ks = {} THEN NotFound
        ELSE LET k == SetMax(ks)
                 start_pos == TitledEndAt(template_content, SetMin(hit(k)),
                                          Kinds[k], section_title)
             IN  [found |-> TRUE,
                  start |-> start_pos,
                  end |-> SpanEnd(template_content, start_pos,
                                  GetSectionLevelRank(Kinds[k]), include_children),
                  level |-> Kinds[k]]

\* The outer loop over the five literal patterns, in the order of the list: the
\* first kind with a match in the whole text returns, with the leftmost match
\* of that kind.
FindSectionInTemplate(template_content, section_title, include_children) ==
    LET hit(k) == {i \in 1..Len(template_content) :
                      TitledEndAt(template_content, i, Kinds[k], section_title) # 0}
        ks == {k \in 1..Len(Kinds) : hit(k) # {}}
    IN  IF ks = {} THEN NotFound
        ELSE LET k == SetMin(ks)
                 start_pos == TitledEndAt(template_content, SetMin(hit(k)),
                                          Kinds[k], section_title)
             IN  [found |-> TRUE,
                  start |-> start_pos,
                  end |-> SpanEnd(template_content, start_pos,
                                  GetSectionLevelRank(Kinds[k]), include_children),
                  level |-> Kinds[k]]

-----------------------------------------------------------------------------
(* Splice engine and terminator normalizer: migrate_content *)

ExtractByMode(mode, content) ==
    IF mode = "granular" THEN ExtractSectionsContentOnly(content)
    ELSE ExtractSections(content)

\* include_children_in_search
IncludeChildrenInSearch(mode) == mode # "granular"

\* The value 'NEW_CONTENT' of old_section, kept as one item.
NewContentTag == <<"NEW_CONTENT">>

\* The loop over section_mapping.items().
RECURSIVE CollectMapping(_, _, _, _)
CollectMapping(pairs, olds, template, mode) ==
    IF pairs = <<>> THEN <<>>
    ELSE LET old_section == Head(pairs)[1]
             new_section == Head(pairs)[2]
             loc == FindSectionInTemplate(template, new_section,
                                          IncludeChildrenInSearch(mode))
         IN  (IF old_section \in DOMAIN olds /\ loc.found
              THEN <<[start |-> loc.start, end |-> loc.end,
                      content |-> Strip(olds[old_section].content),
                      old_section |-> old_section,
                      new_section |-> new_section,
                      type |-> "section_mapping"]>>
              ELSE <<>>) \o CollectMapping(Tail(pairs), olds, template, mode)

\* The loop over new_sections_content.items(): the replacements it appends.
RECURSIVE CollectNewContent(_, _, _)
CollectNewContent(pairs, template, mode) ==
    IF pairs = <<>> THEN <<>>
    ELSE LET section_title == Head(pairs)[1]
             content == Head(pairs)[2]
             loc == FindSectionInTemplate(template, section_title,
                                          IncludeChildrenInSearch(mode))
         IN  (IF loc.found
              THEN <<[start |-> loc.start, end |-> loc.end,
                      content |-> Strip(content),
                      old_section |-> NewContentTag,
                      new_section |-> section_title,
                      type |-> "new_content"]>>
              ELSE <<>>) \o CollectNewContent(Tail(pairs), template, mode)

\* Mutant: a miss of a new-content entry records nothing.
CollectToCreateNothing(pairs, template, mode) == <<>>

\* The loop over new_sections_content.items(): the sections_to_create it appends.
RECURSIVE CollectToCreate(_, _, _)
CollectToCreate(pairs, template, mode) ==
    IF pairs = <<>> THEN <<>>
    ELSE LET section_title == Head(pairs)[1]
             content == Head(pairs)[2]
             loc == FindSectionInTemplate(template, section_title,
                                          IncludeChildrenInSearch(mode))
         IN  (IF loc.found THEN <<>>
              ELSE <<[title |-> section_title, content |-> Strip(content)]>>)
             \o CollectToCreate(Tail(pairs), template, mode)

\* Mutant: the sort is left out, the operations stay in collection order.
SortLeftOut(rs) == rs

\* replacements.sort(key=lambda x: x['start'], reverse=True): list.sort is
\* stable, also with reverse=True, so operations of equal start keep their order.
SortByStartDescending(rs) ==
    LET n == Len(rs)
        place(i) == 1 + Cardinality({j \in 1..n :
                          \/ rs[j].start > rs[i].start
                          \/ rs[j].start = rs[i].start /\ j < i})
    IN  [p \in 1..n |-> rs[CHOOSE i \in 1..n : place(i) = p]]

\* Mutant: the text after the span is taken from its start, not from its end.
ApplyReplacementKeepSpan(buffer, replacement) ==
    LET before == Slice(buffer, 0, replacement.start)
        after == SliceFrom(buffer, replacement.start)
    IN  before \o <<NL>> \o replacement.content \o <<NL>> \o after

\* One round of the apply loop.
ApplyReplacement(buffer, replacement) ==
    LET before == Slice(buffer, 0, replacement.start)
        after == SliceFrom(buffer, replacement.end)
    IN  before \o <<NL>> \o replacement.content \o <<NL>> \o after

\* re.finditer(r'\\end\{document\}', text): the matches in text order, each
\* as [start, end], match.start() and match.end().
RECURSIVE EndDocMatchesFrom(_, _)
EndDocMatchesFrom(text, i) ==
    IF i > Len(text) THEN <<>>
    ELSE IF LiteralAt(text, i, EndDocument)
    THEN <<[start |-> i - 1, end |-> i - 1 + Len(EndDocument)]>>
         \o EndDocMatchesFrom(text, i + Len(EndDocument))
    ELSE EndDocMatchesFrom(text, i + 1)

EndDocMatches(text) == EndDocMatchesFrom(text, 1)

\* The level of a section to create: new template, then old template, then
\* 'section'.
CreatedLevel(section_title, news, olds) ==
    IF section_title \in DOMAIN news THEN news[section_title].level
    ELSE IF section_title \in DOMAIN olds THEN olds[section_title].level
    ELSE "section"

\* new_sections_text
RECURSIVE NewSectionsText(_, _, _)
NewSectionsText(to_create, news, olds) ==
    IF to_create = <<>> THEN <<>>
    ELSE LET info == Head(to_create)
         IN  <<NL>> \o Command(CreatedLevel(info.title, news, olds), info.title)
             \o <<NL>> \o info.content \o <<NL>>
             \o NewSectionsText(Tail(to_create), news, olds)

\* Mutant: the block is inserted before the last terminator, not the first.
CreateSectionsBeforeLast(buffer, to_create, news, olds) ==
    LET matches == EndDocMatches(buffer)
    IN  IF to_create = <<>> \/ matches = <<>> THEN buffer
        ELSE LET insert_pos == matches[Len(matches)].start
             IN  Slice(buffer, 0, insert_pos)
                 \o NewSectionsText(to_create, news, olds) \o <<NL>>
                 \o SliceFrom(buffer, insert_pos)

\* "Create new sections that don't exist in template".
CreateSections(buffer, to_create, news, olds) ==
    LET matches == EndDocMatches(buffer)
    IN  IF to_create = <<>> \/ matches = <<>> THEN buffer
        ELSE LET insert_pos == matches[1].start
             IN  Slice(buffer, 0, insert_pos)
                 \o NewSectionsText(to_create, news, olds) \o <<NL>>
                 \o SliceFrom(buffer, insert_pos)

\* The loop "for match in matches[:-1]": every match keeps the offsets it had
\* when finditer ran, while the buffer shrinks under them.
RECURSIVE RemoveMatches(_, _)
RemoveMatches(buffer, matches) ==
    IF matches = <<>> THEN buffer
    ELSE RemoveMatches(Slice(buffer, 0, Head(matches).start)
                           \o SliceFrom(buffer, Head(matches).end),
                       Tail(matches))

\* "Remove duplicate \end{document} if any".
RemoveDuplicateEndDocs(buffer) ==
    LET matches == EndDocMatches(buffer)
    IN  IF Len(matches) > 1
        THEN RemoveMatches(buffer, SubSeq(matches, 1, Len(matches) - 1))
        ELSE buffer

\* re.search(r'\\(section|subsection|subsubsection|paragraph)(\*?)\{', after_end)
SectionAfter(after_end) ==
    \E i \in 1..Len(after_end) :
        \E kind \in {"section", "subsection", "subsubsection", "paragraph"} :
            OpenBraceAt(after_end, i, kind) # 0

\* "Ensure all content is before \end{document}".  last_match is, on every path
\* of the step before, the last terminator of the buffer as it is now.
MoveContentBeforeEndDoc(buffer) ==
    LET matches == EndDocMatches(buffer)
    IN  IF matches = <<>> THEN buffer
        ELSE LET last_match == matches[Len(matches)]
                 after_end == SliceFrom(buffer, last_match.end)
                 before_end == Slice(buffer, 0, last_match.start)
                 content_after == Strip(after_end)
             IN  IF SectionAfter(after_end) /\ content_after # <<>>
                 THEN before_end \o <<NL>> \o content_after \o <<NL, NL>>
                      \o Slice(buffer, last_match.start, last_match.end) \o <<NL>>
                 ELSE buffer

(* The steps of migrate_content, in program order. *)

\* Reading, extraction and the first pass ("collect all replacements with their
\* positions"), both loops.
Collect ==
    /\ pc = "collect"
    /\ old_sections' = ExtractByMode(mapping_mode, old_content)
    /\ new_sections' = ExtractByMode(mapping_mode, new_content)
    /\ replacements' =
           CollectMapping(section_mapping, old_sections', new_content, mapping_mode)
           \o CollectNewContent(new_sections_content, new_content, mapping_mode)
    /\ sections_to_create' =
           CollectToCreate(new_sections_content, new_content, mapping_mode)
    /\ pc' = "sort"
    /\ UNCHANGED <<old_content, new_content, mapping_mode, section_mapping,
                   new_sections_content, migrated_content, spliced, idx, arg, ret>>
    /\ UNCHANGED hierVars

\* The sort that opens the second pass, and the buffer's initialisation.
Sort ==
    /\ pc = "sort"
    /\ replacements' = SortByStartDescending(replacements)
    /\ migrated_content' = new_content
    /\ idx' = 0
    /\ pc' = "apply"
    /\ UNCHANGED <<old_content, new_content, mapping_mode, section_mapping,
                   new_sections_content, old_sections, new_sections,
                   sections_to_create, spliced, arg, ret>>
    /\ UNCHANGED hierVars

\* One round of the apply loop.
Apply ==
    /\ pc = "apply"
    /\ idx < Len(replacements)
    /\ migrated_content' = ApplyReplacement(migrated_content, replacements[idx + 1])
    /\ idx' = idx + 1
    /\ UNCHANGED <<old_content, new_content, mapping_mode, section_mapping,
                   new_sections_content, old_sections, new_sections, replacements,
                   sections_to_create, spliced, pc, arg, ret>>
    /\ UNCHANGED hierVars

\* The apply loop is over: the sections to create are inserted.
Create ==
    /\ pc = "apply"
    /\ idx = Len(replacements)
    /\ migrated_content' = CreateSections(migrated_content, sections_to_create,
                                          new_sections, old_sections)
    /\ spliced' = migrated_content'
    /\ pc' = "dedup"
    /\ UNCHANGED <<old_content, new_content, mapping_mode, section_mapping,
                   new_sections_content, old_sections, new_sections, replacements,
                   sections_to_create, idx, arg, ret>>
    /\ UNCHANGED hierVars

\* Post-processing, first step.
Dedup ==
    /\ pc = "dedup"
    /\ migrated_content' = RemoveDuplicateEndDocs(migrated_content)
    /\ pc' = "relocate"
    /\ UNCHANGED <<old_content, new_content, mapping_mode, section_mapping,
                   new_sections_content, old_sections, new_sections, replacements,
                   sections_to_create, spliced, idx, arg, ret>>
    /\ UNCHANGED hierVars

\* Post-processing, second step; the buffer is then written out.
Relocate ==
    /\ pc = "relocate"
    /\ migrated_content' = MoveContentBeforeEndDoc(migrated_content)
    /\ pc' = "done"
    /\ UNCHANGED <<old_content, new_content, mapping_mode, section_mapping,
                   new_sections_content, old_sections, new_sections, replacements,
                   sections_to_create, spliced, idx, arg, ret>>
    /\ UNCHANGED hierVars

-----------------------------------------------------------------------------
(* Inputs *)

\* Every text of at most n lines, each line one of the given lines.
RECURSIVE TextsOfLines(_, _)
TextsOfLines(shapes, n) ==
    IF n = 0 THEN {}
    ELSE shapes \cup TextsOfLines(shapes, n - 1)
         \cup {l \o <<NL>> \o t : l \in shapes, t \in TextsOfLines(shapes, n - 1)}

\* Every text made of at most n of the given pieces.
RECURSIVE TextsOfPieces(_, _)
TextsOfPieces(pieces, n) ==
    IF n = 0 THEN {<<>>}
    ELSE {<<>>} \cup {p \o t : p \in pieces, t \in TextsOfPieces(pieces, n - 1)}

\* migrate_content is not running.
MigrateIdle ==
    /\ old_content = <<>>
    /\ new_content = <<>>
    /\ mapping_mode = "full_hierarchy"
    /\ section_mapping = <<>>
    /\ new_sections_content = <<>>
    /\ old_sections = <<>>
    /\ new_sections = <<>>
    /\ replacements = <<>>
    /\ sections_to_create = <<>>
    /\ migrated_content = <<>>
    /\ spliced = <<>>
    /\ idx = 0
    /\ pc = "idle"

\* extract_sections_hierarchical has not begun.
HierIdle ==
    /\ stack = <<>>
    /\ sections = <<>>

\* No method has returned yet: returned is the set of the methods that have.
NoResult == [returned |-> {},
             extract_sections_hierarchical |-> <<>>,
             extract_sections |-> <<>>,
             extract_sections_content_only |-> <<>>,
             find_section_in_template |-> NotFound]

-----------------------------------------------------------------------------
(* The extractors called on a document: SpecExtract *)

MaxExtractLines == 4

ExtractLineShapes ==
    { <<>>, <<"x">>, <<SP, "y">>,
      Command("section", <<"A">>), Command("subsection", <<"B">>),
      Command("subsection", <<"A">>) \o <<"x">>,
      Command("subsection", <<"B">>) \o Command("chapter", <<"C">>) }

InitExtract ==
    /\ MigrateIdle
    /\ arg \in {[method |-> "extract", latex_content |-> d] :
                   d \in TextsOfLines(ExtractLineShapes, MaxExtractLines)}
    /\ ret = NoResult
    /\ HierIdle

CallExtractSections ==
    /\ arg.method = "extract"
    /\ "extract_sections" \notin ret.returned
    /\ ret' = [ret EXCEPT !.returned = @ \cup {"extract_sections"},
                          !.extract_sections = ExtractSections(arg.latex_content)]
    /\ UNCHANGED <<migrateVars, arg>>
    /\ UNCHANGED hierVars

CallExtractSectionsContentOnly ==
    /\ arg.method = "extract"
    /\ "extract_sections_content_only" \notin ret.returned
    /\ ret' = [ret EXCEPT !.returned = @ \cup {"extract_sections_content_only"},
                          !.extract_sections_content_only =
                              ExtractSectionsContentOnly(arg.latex_content)]
    /\ UNCHANGED <<migrateVars, arg>>
    /\ UNCHANGED hierVars

NextExtract == CallExtractSections \/ CallExtractSectionsContentOnly

SpecExtract == InitExtract /\ [][NextExtract]_vars

IsPrefix(p, s) == Len(p) <= Len(s) /\ SubSeq(s, 1, Len(p)) = p

BothExtracted ==
    /\ arg.method = "extract"
    /\ {"extract_sections", "extract_sections_content_only"} \subseteq ret.returned

\* C10: for every document and every title in it, the full-hierarchy content of
\* the title begins with its content-only content (the same region, from the
\* same line on), also when the title occurs more than once.
C10_FullContainsDirect ==
    BothExtracted =>
        /\ DOMAIN ret.extract_sections = DOMAIN ret.extract_sections_content_only
        /\ \A t \in DOMAIN ret.extract_sections :
              IsPrefix(ret.extract_sections_content_only[t].content,
                       ret.extract_sections[t].content)

\* A title that occurs twice, whose kept occurrence has direct text and a child.
C10_Witness ==
    /\ BothExtracted
    /\ \E t \in DOMAIN ret.extract_sections :
          /\ LET all == AllSections(Split(arg.latex_content))
             IN  Cardinality({i \in 1..Len(all) : all[i].title = t}) > 1
          /\ ret.extract_sections_content_only[t].content # <<>>
          /\ Len(ret.extract_sections[t].content)
                 > Len(ret.extract_sections_content_only[t].content)

-----------------------------------------------------------------------------
(* The locator called on a template: SpecLocate *)

MaxLocateLines == 3

LocateLineShapes ==
    { <<>>, <<"x">>,
      Command("section", <<"A">>), Command("subsection", <<"A">>),
      Command("subsection", <<"B">>), Command("section", <<"B">>),
      <<"x">> \o EndDocument,
      Command("section", <<"A">>) \o <<"x">> \o Command("subsection", <<"B">>),
      Command("paragraph", <<"A">>) \o EndDocument }

LocateTitles == {<<"A">>, <<"B">>}

InitLocate ==
    /\ MigrateIdle
    /\ arg \in {[method |-> "find", template_content |-> d, section_title |-> t,
                 include_children |-> b] :
                   d \in TextsOfLines(LocateLineShapes, MaxLocateLines),
                   t \in LocateTitles, b \in BOOLEAN}
    /\ ret = NoResult
    /\ HierIdle

CallFindSectionInTemplate ==
    /\ arg.method = "find"
    /\ "find_section_in_template" \notin ret.returned
    /\ ret' = [ret EXCEPT !.returned = @ \cup {"find_section_in_template"},
                          !.find_section_in_template =
                              FindSectionInTemplate(arg.template_content,
                                                    arg.section_title,
                                                    arg.include_children)]
    /\ UNCHANGED <<migrateVars, arg>>
    /\ UNCHANGED hierVars

NextLocate == CallFindSectionInTemplate

SpecLocate == InitLocate /\ [][NextLocate]_vars

Located ==
    /\ arg.method = "find"
    /\ "find_section_in_template" \in ret.returned

\* The markers of the template that carry the target title: <<i, k>> for a
\* marker of kind Kinds[k] that begins at TLA+ index i.
TitleOccurrences ==
    {o \in (1..Len(arg.template_content)) \X (1..Len(Kinds)) :
        TitledEndAt(arg.template_content, o[1], Kinds[o[2]], arg.section_title) # 0}

\* C8 as stated: the marker returned is the textually first marker, of any of
\* the five kinds, whose title is the target; (None, None, None) when there is
\* none.
C8_TextuallyFirst ==
    Located =>
        LET r == ret.find_section_in_template
        IN  /\ r.found <=> TitleOccurrences # {}
            /\ r.found =>
                  \E o \in TitleOccurrences :
                      /\ \A q \in TitleOccurrences : o[1] <= q[1]
                      /\ r.start = TitledEndAt(arg.template_content, o[1],
                                               Kinds[o[2]], arg.section_title)
                      /\ r.level = Kinds[o[2]]

\* C8, amended: the marker returned is the textually first marker of the
\* first kind, in the order chapter, section, subsection, subsubsection,
\* paragraph, under which the title occurs; (None, None, None) when it occurs
\* under none.
C8_FirstOfFirstKind ==
    Located =>
        LET r == ret.find_section_in_template
        IN  /\ r.found <=> TitleOccurrences # {}
            /\ r.found =>
                  \E o \in TitleOccurrences :
                      /\ \A q \in TitleOccurrences :
                            \/ o[2] < q[2]
                            \/ o[2] = q[2] /\ o[1] <= q[1]
                      /\ r.start = TitledEndAt(arg.template_content, o[1],
                                               Kinds[o[2]], arg.section_title)
                      /\ r.level = Kinds[o[2]]

\* The title occurs under two kinds, the kind tried first is not the one that
\* comes first in the text, and the lookup has returned.
C8_Witness ==
    /\ Located
    /\ ret.find_section_in_template.found
    /\ \E o, q \in TitleOccurrences : o[2] < q[2] /\ q[1] < o[1]

\* A terminator, or a marker that closes the span of a marker of rank r under
\* the policy, begins at index i of the text, on one line.
ClosesAt(text, i, r, include_children) ==
    \/ LiteralAt(text, i, EndDocument)
    \/ \E k \in 1..Len(Kinds) :
          /\ PatternEndAt(text, i, Kinds[k]) # 0
          /\ \A j \in i..PatternEndAt(text, i, Kinds[k]) : text[j] # NL
          /\ (include_children => GetSectionLevelRank(Kinds[k]) <= r)

\* C9: the span ends immediately before the first line after the marker (the
\* rest of the marker's own line counted as the first) that holds the terminator
\* or a marker closing the span under the policy, and at end-of-document when
\* there is no such line.
C9_SpanEndsBeforeClosingLine ==
    (Located /\ ret.find_section_in_template.found) =>
        LET r == ret.find_section_in_template
            text == arg.template_content
            closing == {i \in (r.start + 1)..Len(text) :
                           ClosesAt(text, i, GetSectionLevelRank(r.level),
                                    arg.include_children)}
        IN  IF closing = {} THEN r.end = Len(text)
            ELSE LET p == SetMin(closing)
                     feeds == {i \in (r.start + 1)..(p - 1) : text[i] = NL}
                 IN  IF feeds = {} THEN r.end = r.start
                     ELSE r.end = SetMax(feeds) - 1

\* An include-children lookup whose span absorbs a deeper marker and is closed
\* by a later marker of lower or equal rank.
C9_Witness ==
    /\ Located
    /\ ret.find_section_in_template.found
    /\ arg.include_children
    /\ LET r == ret.find_section_in_template
           text == arg.template_content
           rank == GetSectionLevelRank(r.level)
       IN  /\ r.end < Len(text)
           /\ \E i \in (r.start + 1)..r.end : \E k \in 1..Len(Kinds) :
                 /\ PatternEndAt(text, i, Kinds[k]) # 0
                 /\ GetSectionLevelRank(Kinds[k]) > rank
           /\ \E k \in 1..Len(Kinds) :
                 /\ PatternEndAt(text, r.end + 2, Kinds[k]) # 0
                 /\ GetSectionLevelRank(Kinds[k]) <= rank

\* C13: every span returned for a found title satisfies
\* 0 <= start <= end <= length of the text, under both policies.
C13_SpanWithinText ==
    (Located /\ ret.find_section_in_template.found) =>
        /\ 0 <= ret.find_section_in_template.start
        /\ ret.find_section_in_template.start <= ret.find_section_in_template.end
        /\ ret.find_section_in_template.end <= Len(arg.template_content)

\* The matched marker is not at the start of the text, and the terminator or
\* another marker follows it on its own line: the span is empty.
C13_Witness ==
    /\ Located
    /\ ret.find_section_in_template.found
    /\ ret.find_section_in_template.start = ret.find_section_in_template.end
    /\ ret.find_section_in_template.end < Len(arg.template_content)
    /\ arg.template_content[ret.find_section_in_template.end + 1] = "\\"
    /\ \E i \in 1..(ret.find_section_in_template.start - 1) :
           arg.template_content[i] = NL

-----------------------------------------------------------------------------
(* A whole run of migrate_content: Spec *)

MaxNewLines == 3

\* The old template: a section with text of its own and a subsection.
OldTemplates ==
    { Command("section", <<"P">>) \o <<NL, "y", NL>>
          \o Command("subsection", <<"Q">>) \o <<NL, "z">> }

NewLineShapes ==
    { <<"x">>, Command("section", <<"A">>), Command("subsection", <<"B">>),
      EndDocument }

MappingKeys == {<<"P">>, <<"Q">>}
MappingValues == {<<"A">>, <<"B">>}
NewSectionKeys == {<<"A">>, <<"Q">>}
NewSectionTexts == {<<"w">>}

\* Every dict with keys among ks and values among vs, in every insertion
\* order: the sequences of <<key, value>> pairs with pairwise distinct keys.
RECURSIVE Dicts(_, _)
Dicts(ks, vs) ==
    {<<>>} \cup UNION {{<<<<k, v>>>> \o d : v \in vs, d \in Dicts(ks \ {k}, vs)} : k \in ks}

Init ==
    /\ old_content \in OldTemplates
    /\ new_content \in TextsOfLines(NewLineShapes, MaxNewLines)
    /\ mapping_mode \in {"full_hierarchy", "granular"}
    /\ section_mapping \in Dicts(MappingKeys, MappingValues)
    /\ new_sections_content \in Dicts(NewSectionKeys, NewSectionTexts)
    /\ old_sections = <<>>
    /\ new_sections = <<>>
    /\ replacements = <<>>
    /\ sections_to_create = <<>>
    /\ migrated_content = <<>>
    /\ spliced = <<>>
    /\ idx = 0
    /\ pc = "collect"
    /\ arg = [method |-> "migrate_content"]
    /\ ret = NoResult
    /\ HierIdle

Next == Collect \/ Sort \/ Apply \/ Create \/ Dedup \/ Relocate

Spec == Init /\ [][Next]_vars

ApplyLoopDone == pc = "apply" /\ idx = Len(replacements)

\* The title is the title of some marker of the new template.
InTemplate(title) ==
    \E i \in {j \in 1..Len(new_content) : new_content[j] = "\\"} :
        \E k \in 1..Len(Kinds) : TitledEndAt(new_content, i, Kinds[k], title) # 0

C3_OffsetsValidWhenApplied ==
    (pc = "apply" /\ idx < Len(replacements)) =>
        LET r == replacements[idx + 1]
        IN  Slice(migrated_content, 0, r.end) = Slice(new_content, 0, r.end)

Overlap(a, b) == a.start < b.end /\ b.start < a.end

\* C4 as stated: after collection and sort the spans of the batch are pairwise
\* non-overlapping.
C4_SpansPairwiseDisjoint ==
    pc = "apply" =>
        \A i, j \in 1..Len(replacements) :
            i # j => ~Overlap(replacements[i], replacements[j])

RecordedReplacement(old, new, type) ==
    \E i \in 1..Len(replacements) :
        /\ replacements[i].old_section = old
        /\ replacements[i].new_section = new
        /\ replacements[i].type = type

PendingCreation(title) ==
    \E i \in 1..Len(sections_to_create) : sections_to_create[i].title = title

\* The mapping entries that resolve to source content ("if old_section in
\* old_sections").
ResolvedMappings ==
    {i \in 1..Len(section_mapping) : section_mapping[i][1] \in DOMAIN old_sections}

NewContentEntryRecorded(e) ==
    IF InTemplate(e[1])
    THEN RecordedReplacement(NewContentTag, e[1], "new_content")
    ELSE \E i \in 1..Len(sections_to_create) :
             sections_to_create[i] = [title |-> e[1], content |-> Strip(e[2])]

\* C7 as stated: every entry, a resolved old -> new mapping as well as a
\* new-content entry, records a replacement when its destination title is
\* located and a pending creation when it is not.
C7_MissAlwaysCreates ==
    pc = "sort" =>
        /\ \A i \in ResolvedMappings :
              IF InTemplate(section_mapping[i][2])
              THEN RecordedReplacement(section_mapping[i][1], section_mapping[i][2],
                                       "section_mapping")
              ELSE PendingCreation(section_mapping[i][2])
        /\ \A i \in 1..Len(new_sections_content) :
              NewContentEntryRecorded(new_sections_content[i])

\* C7, amended: a new-content entry records a replacement when its title is
\* located and a pending creation when it is not; a resolved old -> new
\* mapping records a replacement when its destination title is located, and
\* nothing at all when it is not (the entry is dropped with a warning): the
\* pending creations are exactly the unlocated new-content entries.
C7_MissCreatesForNewContentOnly ==
    pc = "sort" =>
        /\ \A i \in ResolvedMappings :
              IF InTemplate(section_mapping[i][2])
              THEN RecordedReplacement(section_mapping[i][1], section_mapping[i][2],
                                       "section_mapping")
              ELSE \A j \in 1..Len(replacements) :
                       replacements[j].new_section # section_mapping[i][2]
        /\ \A i \in 1..Len(new_sections_content) :
              NewContentEntryRecorded(new_sections_content[i])
        /\ Len(sections_to_create) =
               Cardinality({i \in 1..Len(new_sections_content) :
                               ~InTemplate(new_sections_content[i][1])})
        /\ Len(replacements) =
               Cardinality({i \in ResolvedMappings : InTemplate(section_mapping[i][2])})
               + Cardinality({i \in 1..Len(new_sections_content) :
                                 InTemplate(new_sections_content[i][1])})

\* A resolved mapping misses its destination title, a new-content entry misses
\* its own, and a third entry is located.
C7_Witness ==
    /\ pc = "sort"
    /\ \E i \in ResolvedMappings : ~InTemplate(section_mapping[i][2])
    /\ \E i \in 1..Len(new_sections_content) : ~InTemplate(new_sections_content[i][1])
    /\ sections_to_create # <<>>
    /\ replacements # <<>>

\* The indices where a terminator begins.
EndDocStarts(text) == {i \in 1..Len(text) : LiteralAt(text, i, EndDocument)}

\* The kind of a created marker: the kind the title has in the new template,
\* else the kind it has in the old template, else section.
ResolvedKind(title) ==
    IF title \in DOMAIN new_sections THEN new_sections[title].level
    ELSE IF title \in DOMAIN old_sections THEN old_sections[title].level
    ELSE "section"

\* The marker-plus-content unit of pending creation n: a line feed, the marker,
\* a line feed, the content, a line feed.
CreationUnit(n) ==
    <<NL>> \o Command(ResolvedKind(sections_to_create[n].title),
                      sections_to_create[n].title)
           \o <<NL>> \o sections_to_create[n].content \o <<NL>>

\* The units of the pending creations n..last, in the order of their entries.
RECURSIVE CreationBlockFrom(_)
CreationBlockFrom(n) ==
    IF n > Len(sections_to_create) THEN <<>>
    ELSE CreationUnit(n) \o CreationBlockFrom(n + 1)

\* C11: when the apply loop is over, there are pending creations and the spliced
\* text has a terminator, the creation step inserts the units of all pending
\* creations, in the order of their entries, as one block (closed by one line
\* feed) immediately before the first terminator of the spliced text; the text
\* before and the text from that terminator on are unchanged.
C11_CreationsBeforeFirstTerminator ==
    [][(pc = "apply" /\ pc' = "dedup" /\ sections_to_create # <<>>
                     /\ EndDocStarts(migrated_content) # {}) =>
          LET first == SetMin(EndDocStarts(migrated_content))
          IN  migrated_content' =
                  SubSeq(migrated_content, 1, first - 1)
                  \o CreationBlockFrom(1) \o <<NL>>
                  \o SubSeq(migrated_content, first, Len(migrated_content))]_vars

\* Two pending creations were inserted into a spliced text that has two
\* terminators and had an operation applied.
C11_Witness ==
    /\ pc = "dedup"
    /\ Len(sections_to_create) = 2
    /\ replacements # <<>>
    /\ Cardinality(EndDocStarts(spliced)) = 2
    /\ Len(spliced) > Len(new_content)

\* The text sub occurs in the text.
Contains(text, sub) == \E i \in 1..(Len(text) + 1) : LiteralAt(text, i, sub)

\* C16 as stated: the trimmed content of every new_sections_content entry is
\* present in the final document.
C16_NoNewContentLost ==
    pc = "done" =>
        \A n \in 1..Len(new_sections_content) :
            Contains(migrated_content, Strip(new_sections_content[n][2]))

-----------------------------------------------------------------------------
(* The second pass on a batch of operations given directly: SpecApply *)

MaxApplyLen == 3
MaxOps == 2

ApplyLetters == <<"a", "b", "c", "d", "e", "f", "g", "h">>

ApplyText == [i \in 1..MaxApplyLen |-> ApplyLetters[i]]

ApplyContents == {<<>>, <<"u">>, <<"v", "v">>}

ApplyOperations ==
    {[start |-> s, end |-> e, content |-> c, old_section |-> NewContentTag,
      new_section |-> <<"T">>, type |-> "new_content"] :
        s \in 0..MaxApplyLen, e \in 0..MaxApplyLen, c \in ApplyContents}

ApplyBatches ==
    UNION {[1..n -> {o \in ApplyOperations : o.start <= o.end}] : n \in 0..MaxOps}

InitApply ==
    /\ old_content = <<>>
    /\ new_content = ApplyText
    /\ mapping_mode = "full_hierarchy"
    /\ section_mapping = <<>>
    /\ new_sections_content = <<>>
    /\ old_sections = <<>>
    /\ new_sections = <<>>
    /\ replacements \in ApplyBatches
    /\ sections_to_create = <<>>
    /\ migrated_content = <<>>
    /\ spliced = <<>>
    /\ idx = 0
    /\ pc = "sort"
    /\ arg = [method |-> "apply", operations |-> replacements]
    /\ ret = NoResult
    /\ HierIdle

NextApply == Sort \/ Apply

SpecApply == InitApply /\ [][NextApply]_vars

\* The reference: the operations in ascending start order (ties in the order
\* given), each applied at its offsets shifted by the length changes of the
\* edits before it.
SortByStartAscending(rs) ==
    LET n == Len(rs)
        place(i) == 1 + Cardinality({j \in 1..n :
                          \/ rs[j].start < rs[i].start
                          \/ rs[j].start = rs[i].start /\ j < i})
    IN  [p \in 1..n |-> rs[CHOOSE i \in 1..n : place(i) = p]]

RECURSIVE ReferenceFrom(_, _, _)
ReferenceFrom(buffer, ops, shift) ==
    IF ops = <<>> THEN buffer
    ELSE LET r == Head(ops)
         IN  ReferenceFrom(
                 SubSeq(buffer, 1, r.start + shift) \o <<NL>> \o r.content \o <<NL>>
                     \o SubSeq(buffer, r.end + shift + 1, Len(buffer)),
                 Tail(ops),
                 shift + Len(r.content) + 2 - (r.end - r.start))

Reference(text, ops) == ReferenceFrom(text, SortByStartAscending(ops), 0)

NonOverlapping(ops) ==
    \A i, j \in 1..Len(ops) :
        i # j => (ops[i].end <= ops[j].start \/ ops[j].end <= ops[i].start)

DistinctStarts(ops) ==
    \A i, j \in 1..Len(ops) : i # j => ops[i].start # ops[j].start

ApplyDone == arg.method = "apply" /\ ApplyLoopDone

\* C2 as stated: for pairwise non-overlapping spans the apply loop yields the
\* text of the reference.
C2_DescendingEqualsReference ==
    (ApplyDone /\ NonOverlapping(arg.operations)) =>
        migrated_content = Reference(new_content, arg.operations)

\* C2, amended: for pairwise non-overlapping spans with pairwise distinct start
\* offsets the apply loop yields the text of the reference.
C2_DescendingEqualsReferenceDistinctStarts ==
    (ApplyDone /\ NonOverlapping(arg.operations) /\ DistinctStarts(arg.operations)) =>
        migrated_content = Reference(new_content, arg.operations)

\* Two disjoint operations, given leftmost first, both changing the length.
C2_Witness ==
    /\ ApplyDone
    /\ Len(arg.operations) >= 2
    /\ NonOverlapping(arg.operations)
    /\ arg.operations[1].start < arg.operations[2].start
    /\ \A i \in 1..2 :
          Len(arg.operations[i].content) + 2
              # arg.operations[i].end - arg.operations[i].start

-----------------------------------------------------------------------------
(* Post-processing on a spliced text given directly: SpecNorm *)

MaxNormPieces == 4

\* The last piece is a section command cut off after its opening brace.
NormPieces ==
    { <<"x">>, <<SP>>, <<NL>>, EndDocument, Command("section", <<"A">>),
      Command("chapter", <<"C">>), <<"\\">> \o KindWord("section") \o <<"{">> }

InitNorm ==
    /\ old_content = <<>>
    /\ new_content = <<>>
    /\ mapping_mode = "full_hierarchy"
    /\ section_mapping = <<>>
    /\ new_sections_content = <<>>
    /\ old_sections = <<>>
    /\ new_sections = <<>>
    /\ replacements = <<>>
    /\ sections_to_create = <<>>
    /\ migrated_content \in TextsOfPieces(NormPieces, MaxNormPieces)
    /\ spliced = migrated_content
    /\ idx = 0
    /\ pc = "dedup"
    /\ arg = [method |-> "normalize"]
    /\ ret = NoResult
    /\ HierIdle

NextNorm == Dedup \/ Relocate

SpecNorm == InitNorm /\ [][NextNorm]_vars

EndDocCount(text) == Cardinality(EndDocStarts(text))

\* The text after the last terminator.
AfterLastEndDoc(text) ==
    SliceFrom(text, SetMax(EndDocStarts(text)) + Len(EndDocument) - 1)

\* C5 as stated: a text with k >= 1 terminators has, after de-duplication,
\* exactly one, followed by what followed the last terminator of the input.
C5_OnlyLastTerminatorKept ==
    (pc = "relocate" /\ EndDocCount(spliced) >= 1) =>
        /\ EndDocCount(migrated_content) = 1
        /\ AfterLastEndDoc(migrated_content) = AfterLastEndDoc(spliced)

\* C6 as stated: after normalization of a text that has a terminator, no marker
\* of the five kinds stands after the retained terminator.
C6_NoMarkerAfterTerminator ==
    (pc = "done" /\ EndDocCount(spliced) >= 1 /\ EndDocCount(migrated_content) >= 1) =>
        LET after_end == AfterLastEndDoc(migrated_content)
        IN  \A i \in 1..Len(after_end) : \A k \in 1..Len(Kinds) :
                PatternEndAt(after_end, i, Kinds[k]) = 0

\* A marker of one of the five kinds begins in the text.
HasMarker(text) ==
    \E i \in 1..Len(text) : \E k \in 1..Len(Kinds) : PatternEndAt(text, i, Kinds[k]) # 0

\* Single terminator, no structural marker after it.
Normalized(text) ==
    /\ EndDocCount(text) = 1
    /\ ~HasMarker(AfterLastEndDoc(text))

\* C12 as stated: the post-processing returns a text with exactly one terminator
\* and no structural marker after it unchanged.
C12_NormalizedUnchanged ==
    (pc = "done" /\ Normalized(spliced)) => migrated_content = spliced

-----------------------------------------------------------------------------
(* The stack-based builder run line by line on a document: SpecHier *)

MaxHierLines == 4

HierLineShapes ==
    { <<>>, <<"x">>, Command("chapter", <<"C">>), Command("section", <<"A">>),
      Command("subsection", <<"B">>), Command("subsection", <<"A">>) }

InitHier ==
    /\ MigrateIdle
    /\ arg \in {[method |-> "extract_sections_hierarchical", latex_content |-> d] :
                   d \in TextsOfLines(HierLineShapes, MaxHierLines)}
    /\ ret = NoResult
    /\ HierIdle

\* One round of "for idx, line in enumerate(lines)" on a marker line.
HierMarkerLine ==
    /\ arg.method = "extract_sections_hierarchical"
    /\ "extract_sections_hierarchical" \notin ret.returned
    /\ idx < Len(Split(arg.latex_content))
    /\ ScanLine(Split(arg.latex_content)[idx + 1], idx) # <<>>
    /\ stack' = PushSection(stack, ScanLine(Split(arg.latex_content)[idx + 1], idx)[1])
    /\ sections' = InitSectionEntry(sections, stack',
                                    ScanLine(Split(arg.latex_content)[idx + 1], idx)[1])
    /\ idx' = idx + 1
    /\ UNCHANGED <<old_content, new_content, mapping_mode, section_mapping,
                   new_sections_content, old_sections, new_sections, replacements,
                   sections_to_create, migrated_content, spliced, pc, arg, ret>>

\* One round of the loop on a line without a marker.
HierContentLine ==
    /\ arg.method = "extract_sections_hierarchical"
    /\ "extract_sections_hierarchical" \notin ret.returned
    /\ idx < Len(Split(arg.latex_content))
    /\ ScanLine(Split(arg.latex_content)[idx + 1], idx) = <<>>
    /\ sections' = AppendToActive(sections, stack, Split(arg.latex_content)[idx + 1])
    /\ idx' = idx + 1
    /\ UNCHANGED <<old_content, new_content, mapping_mode, section_mapping,
                   new_sections_content, old_sections, new_sections, replacements,
                   sections_to_create, migrated_content, spliced, pc, arg, ret, stack>>

\* The loop is over: the content lines are joined and the dict is returned.
HierReturn ==
    /\ arg.method = "extract_sections_hierarchical"
    /\ "extract_sections_hierarchical" \notin ret.returned
    /\ idx = Len(Split(arg.latex_content))
    /\ ret' = [ret EXCEPT !.returned = @ \cup {"extract_sections_hierarchical"},
                          !.extract_sections_hierarchical = HierarchicalResult(sections)]
    /\ UNCHANGED <<migrateVars, arg, hierVars>>

\* extract_sections called on the same document.
HierCallExtractSections ==
    /\ arg.method = "extract_sections_hierarchical"
    /\ "extract_sections" \notin ret.returned
    /\ ret' = [ret EXCEPT !.returned = @ \cup {"extract_sections"},
                          !.extract_sections = ExtractSections(arg.latex_content)]
    /\ UNCHANGED <<migrateVars, arg, hierVars>>

NextHier == HierMarkerLine \/ HierContentLine \/ HierReturn \/ HierCallExtractSections

SpecHier == InitHier /\ [][NextHier]_vars

HierRunning == arg.method = "extract_sections_hierarchical"

\* The marker occurrences on the lines processed so far, in text order.
Processed ==
    LET all == AllSections(Split(arg.latex_content))
    IN  SelectSeq(all, LAMBDA o : o.line_idx < idx)

\* Occurrence n of the processed ones is open: no later processed occurrence
\* has a rank <= its own.
OpenOccurrence(occ, n) == \A j \in (n + 1)..Len(occ) : occ[j].rank > occ[n].rank

\* The nearest occurrence before n of strictly lower rank, 0 when there is none.
EnclosingOccurrence(occ, n) ==
    LET lower == {j \in 1..(n - 1) : occ[j].rank < occ[n].rank}
    IN  IF lower = {} THEN 0 ELSE SetMax(lower)

\* C14: after every processed line the ranks of the stack are strictly
\* increasing from bottom to top; the stack holds, in order, exactly the
\* occurrences not yet followed by an occurrence of rank <= their own; and the
\* parent recorded for a title is the nearest occurrence of strictly lower rank
\* before the title's first occurrence (None when there is none).
C14_StackStrictlyIncreasing ==
    HierRunning =>
        LET occ == Processed
            open == SelectSeq([n \in 1..Len(occ) |-> n],
                              LAMBDA n : OpenOccurrence(occ, n))
        IN  /\ \A n \in 1..(Len(stack) - 1) :
                  GetSectionLevelRank(stack[n][2]) < GetSectionLevelRank(stack[n + 1][2])
            /\ stack = [n \in 1..Len(open) |->
                           <<occ[open[n]].title, occ[open[n]].level, occ[open[n]].line_idx>>]
            /\ DOMAIN sections = {occ[n].title : n \in 1..Len(occ)}
            /\ \A t \in DOMAIN sections :
                  LET first == SetMin({n \in 1..Len(occ) : occ[n].title = t})
                      p == EnclosingOccurrence(occ, first)
                  IN  sections[t].parent = IF p = 0 THEN NoParent ELSE occ[p].title

\* Four markers were processed, two are left on the stack, and the recorded
\* parent of the upper one is the lower one.
C14_Witness ==
    /\ HierRunning
    /\ Len(stack) = 2
    /\ Len(Processed) = 4
    /\ sections[stack[2][1]].parent = stack[1][1]

HierBothReturned ==
    /\ HierRunning
    /\ {"extract_sections_hierarchical", "extract_sections"} \subseteq ret.returned

DistinctTitles ==
    LET all == AllSections(Split(arg.latex_content))
    IN  \A i, j \in 1..Len(all) : i # j => all[i].title # all[j].title

\* C15 as stated: on a document with pairwise distinct marker titles the two
\* builders assign every title the same content, up to leading and trailing
\* white space.
C15_BuildersAgree ==
    (HierBothReturned /\ DistinctTitles) =>
        /\ DOMAIN ret.extract_sections_hierarchical = DOMAIN ret.extract_sections
        /\ \A t \in DOMAIN ret.extract_sections :
              Strip(ret.extract_sections_hierarchical[t].content)
                  = ret.extract_sections[t].content

-----------------------------------------------------------------------------
\* The text with its terminators taken out, leftmost first.
RECURSIVE WithoutEndDocsFrom(_, _)
WithoutEndDocsFrom(text, i) ==
    IF i > Len(text) THEN <<>>
    ELSE IF LiteralAt(text, i, EndDocument)
    THEN WithoutEndDocsFrom(text, i + Len(EndDocument))
    ELSE <<text[i]>> \o WithoutEndDocsFrom(text, i + 1)

WithoutEndDocs(text) == WithoutEndDocsFrom(text, 1)

\* C17 as stated: the text after the de-duplication step, terminators taken
\* out, is the text before the step, terminators taken out.
C17_DedupDeletesTerminatorsOnly ==
    pc = "relocate" => WithoutEndDocs(migrated_content) = WithoutEndDocs(spliced)

====
